---- MODULE Spec2Model ----
(***************************************************************************)
(* restic-PyBM: a restic wrapper and Nagios-compliant status checker.      *)
(* The module models the mainline of restic-PyBM.py as a sequential state  *)
(* machine.  One step is one segment of the script that ends when an       *)
(* external call (restic, Vault) returns; the outcome of every external    *)
(* call is a nondeterministic input.                                       *)
(*                                                                         *)
(* Text is modelled as a sequence of tokens: a message token names the     *)
(* template and the repository it was formatted with, an output token      *)
(* names the invocation whose stdout / stderr it is.  String concatenation *)
(* is sequence concatenation.                                              *)
(***************************************************************************)
EXTENDS Integers, Sequences, FiniteSets, TLC

\* ---- bounds ------------------------------------------------------------
\* largest number of repositories in the configuration file
MaxRepos == 2
\* largest number of snapshots in a host group of a snapshot listing
MaxSnaps == 2

\* ---- inputs -------------------------------------------------------------
\* seconds in timedelta(days=1)
Day == 86400

\* argparse default of the positional 'repo'
ALL_REPOS == "ALL_REPOS"

ActionChoices == {"run", "create", "list", "prune", "check"}

\* names a configuration file may give a repository; nothing keeps a file
\* from using the argparse default as a key
RepoNames == {"local", "mirror", ALL_REPOS}

\* a repository name that no configuration declares
AbsentName == "absent"

\* values of the positional 'repo': the default, configured names, and a
\* name that is not configured
TargetChoices == {ALL_REPOS, "local", "mirror", AbsentName}

\* repos[name] of the configuration file: a local repository, a B2 mirror
\* of it, and an S3 bucket
RepoCfg(name) ==
  CASE name = "local"  -> [location |-> "/srv", duplicate |-> "",      max_age |-> 30, min_age |-> 1]
    [] name = "mirror" -> [location |-> "b2:",  duplicate |-> "local", max_age |-> 30, min_age |-> 1]
    [] OTHER           -> [location |-> "s3:",  duplicate |-> "",      max_age |-> 30, min_age |-> 1]

Range(s) == {s[i] : i \in 1..Len(s)}

\* ordered, duplicate-free key lists of length 1..n
RECURSIVE KeyLists(_)
KeyLists(n) ==
  IF n = 0 THEN {<<>>}
  ELSE LET shorter == KeyLists(n - 1)
       IN  shorter \cup {Append(s, k) : s \in {x \in shorter : Len(x) = n - 1},
                                         k \in RepoNames}

\* the 'repos' mappings a configuration file can hold: keys are unique, and
\* a duplicate-type repository names a source that is configured too
Configs ==
  {c \in KeyLists(MaxRepos) :
      /\ Len(c) >= 1
      /\ \A i, j \in 1..Len(c) : c[i] = c[j] => i = j
      /\ \A i \in 1..Len(c) :
            RepoCfg(c[i]).duplicate # "" => RepoCfg(c[i]).duplicate \in Range(c)}

\* exit codes an external invocation can return
RetCodes == {0, 1}

\* datetime.now() of the run
NowChoices == {40 * Day + 30}

\* timestamps a snapshot record can carry, in seconds: 31 days old, 2 days
\* old, 29 seconds short of one day old (at second 59 of its minute), and new
SnapTimes(t) == {t - 31 * Day, t - 2 * Day, t - Day + 29, t}

\* host groups: snapshots in ascending time order, as restic lists them
RECURSIVE Groups(_, _)
Groups(t, n) ==
  IF n = 0 THEN {<<>>}
  ELSE LET shorter == Groups(t, n - 1)
       IN  shorter \cup {Append(g, s) : g \in {x \in shorter : Len(x) = n - 1},
                                         s \in SnapTimes(t)}

Ascending(g) == \A i \in 1..(Len(g) - 1) : g[i] < g[i + 1]

\* what 'restic snapshots --json --group-by host' can print: text that is
\* not JSON, an empty list, or a list whose first host group is g
Listings(t) ==
  {[json |-> FALSE, groups |-> <<>>], [json |-> TRUE, groups |-> <<>>]}
  \cup {[json |-> TRUE, groups |-> <<g>>] : g \in {x \in Groups(t, MaxSnaps) : Ascending(x)}}

\* ---- text tokens --------------------------------------------------------
Msg(t, r) == [t |-> t, r |-> r]
EmptyMsg == Msg("", "")
Out(cmd, r) == <<[t |-> cmd, r |-> r]>>

Line(kind, text) == [line |-> kind, text |-> text]

\* ---- environment --------------------------------------------------------
EnvVars == {"RESTIC_PASSWORD", "RESTIC_PASSWORD2", "B2_ACCOUNT_ID",
            "B2_ACCOUNT_KEY", "AWS_ACCESS_KEY_ID", "AWS_SECRET_ACCESS_KEY"}

\* a credential value: field f of the secret of repository r, read from store s
Cred(r, f, s) == [of |-> r, field |-> f, store |-> s]
Unset == Cred("", "unset", "")

NoResult == [returncode |-> 0, stdout |-> <<>>, stderr |-> <<>>]
\* listing: "none" before a listing was read, "bad" when it could not be
\* evaluated, "ok" when the ages were computed
NoEval == [done |-> FALSE, listing |-> "none", oldAge |-> 0, newAge |-> 0,
           oldDiff |-> 0, newDiff |-> 0]

VARIABLES
  args,          \* parsed command line
  repos,         \* keys of the configuration's 'repos', in file order
  now,           \* datetime.now()
  pc,            \* position in the mainline
  vault,         \* TRUE once the Vault session is open
  reposToProcess,
  idx,           \* position of the for loop in reposToProcess
  commandEnv,
  result,
  successMessage,
  errorMessage,
  successMessageAccumulated,
  errorMessageAccumulated,
  stdoutAccumulated,
  stderrAccumulated,
  scriptReturnValue,
  calls,         \* external calls made so far, in order
  printed,       \* lines printed so far
  exitCode,      \* process exit code, -1 while running
  ageEval,       \* age evaluation of the repository at hand, if one ran
  repoStatus,    \* status contributed by each repository processed so far
  ageWarned      \* TRUE once a snapshot of some repository was over a threshold

vars == <<args, repos, now, pc, vault, reposToProcess, idx, commandEnv, result,
          successMessage, errorMessage, successMessageAccumulated,
          errorMessageAccumulated, stdoutAccumulated, stderrAccumulated,
          scriptReturnValue, calls, printed, exitCode, ageEval, repoStatus,
          ageWarned>>

inputs == <<args, repos, now>>
accumulators == <<successMessageAccumulated, errorMessageAccumulated,
                  stdoutAccumulated, stderrAccumulated, scriptReturnValue>>
messages == <<successMessage, errorMessage>>
ghosts == <<ageEval, repoStatus, ageWarned>>

currentRepo == reposToProcess[idx]

Call(cmd, r, rc) == [cmd |-> cmd, repo |-> r, rc |-> rc, env |-> commandEnv]

\* ---- run_command --------------------------------------------------------
run_command(cmd, r, rc) ==
  [returncode |-> rc, stdout |-> Out(cmd, r), stderr |-> Out(cmd, r)]

\* ---- get_repo_password --------------------------------------------------
IsComplex(r) == RepoCfg(r).location \in {"s3:", "b2:"}

get_repo_password(r, useVault) ==
  IF useVault
  THEN IF IsComplex(r) THEN Cred(r, "record", "vault") ELSE Cred(r, "password", "vault")
  ELSE Cred(r, IF IsComplex(r) THEN "record" ELSE "password", "config")

\* whether resolving r's credentials can raise: a Vault read can fail, and a
\* record can lack keyID / applicationKey / password
CanRaise(r, useVault) == useVault \/ IsComplex(r)

Init ==
  /\ args \in [action : ActionChoices,
               repo : TargetChoices,
               selfUpdate : BOOLEAN, age : BOOLEAN, vault : BOOLEAN,
               quiet : BOOLEAN, verbose : BOOLEAN]
  /\ repos \in Configs
  /\ now \in NowChoices
  /\ pc = "start"
  /\ vault = FALSE
  /\ reposToProcess = <<>>
  /\ idx = 0
  /\ commandEnv = [v \in EnvVars |-> Unset]
  /\ result = NoResult
  /\ successMessage = EmptyMsg
  /\ errorMessage = EmptyMsg
  /\ successMessageAccumulated = <<>>
  /\ errorMessageAccumulated = <<>>
  /\ stdoutAccumulated = <<>>
  /\ stderrAccumulated = <<>>
  /\ scriptReturnValue = 0
  /\ calls = <<>>
  /\ printed = <<>>
  /\ exitCode = -1
  /\ ageEval = NoEval
  /\ repoStatus = <<>>
  /\ ageWarned = FALSE

\* ---- mainline, lines 149-187 -------------------------------------------
\* an uncaught Python exception: traceback, exit status 1
Crash ==
  /\ pc' = "crashed"
  /\ printed' = Append(printed, Line("Traceback", <<>>))
  /\ exitCode' = 1

\* line 150 with the membership test lost: any name passes when the
\* configuration declares a repository
RepoExistsAnyName(target, cfg) == Len(cfg) > 0 \/ target = ALL_REPOS

\* line 150
RepoExists(target, cfg) == target \in Range(cfg) \/ target = ALL_REPOS

RepoCheck ==
  /\ pc = "start"
  /\ IF RepoExists(args.repo, repos)
     THEN /\ pc' = "selfupdate"
          /\ UNCHANGED <<printed, exitCode>>
     ELSE /\ pc' = "exit_config"
          /\ printed' = Append(printed, Line("Repository absent", <<>>))
          /\ exitCode' = 2
  /\ UNCHANGED <<inputs, vault, reposToProcess, idx, commandEnv, result, messages,
                 accumulators, calls, ghosts>>

\* subprocess.run with check=True: a non-zero exit code raises
RaisesOnNonZero(rc) == rc # 0

\* run_command is subprocess.run without check=True: a non-zero exit code is
\* returned, never raised
Raises(rc) == FALSE

\* lines 161-163 without the exit: a failed self-update is ignored
SelfUpdateIgnored(rc) == FALSE

\* lines 161-163
SelfUpdateFatal(rc) == rc # 0

SelfUpdate ==
  /\ pc = "selfupdate"
  /\ args.selfUpdate
  /\ \E rc \in RetCodes :
       /\ calls' = Append(calls, Call("self-update", "", rc))
       /\ IF Raises(rc)
          THEN Crash
          ELSE IF SelfUpdateFatal(rc)
          THEN /\ pc' = "exit_selfupdate"
               /\ printed' = Append(printed,
                               Line("CRITICAL self-update", Out("self-update", "")))
               /\ exitCode' = 2
          ELSE /\ pc' = "build"
               /\ UNCHANGED <<printed, exitCode>>
  /\ UNCHANGED <<inputs, vault, reposToProcess, idx, commandEnv, result, messages,
                 accumulators, ghosts>>

SkipSelfUpdate ==
  /\ pc = "selfupdate"
  /\ ~args.selfUpdate
  /\ pc' = "build"
  /\ UNCHANGED <<inputs, vault, reposToProcess, idx, commandEnv, result, messages,
                 accumulators, calls, printed, exitCode, ghosts>>

\* lines 166-171
BuildReposToProcess(target, cfg) ==
  IF target = ALL_REPOS THEN cfg ELSE <<target>>

BuildList ==
  /\ pc = "build"
  /\ reposToProcess' = BuildReposToProcess(args.repo, repos)
  /\ idx' = 1
  /\ pc' = IF args.vault THEN "vault" ELSE "loop"
  /\ UNCHANGED <<inputs, vault, commandEnv, result, messages, accumulators, calls,
                 printed, exitCode, ghosts>>

\* lines 174-180; the approle login raises when Vault is unreachable
VaultLogin ==
  /\ pc = "vault"
  /\ \E ok \in BOOLEAN :
       /\ calls' = Append(calls, Call("vault-login", "", IF ok THEN 0 ELSE 1))
       /\ IF ok
          THEN /\ vault' = TRUE
               /\ pc' = "loop"
               /\ UNCHANGED <<printed, exitCode>>
          ELSE /\ Crash
               /\ UNCHANGED vault
  /\ UNCHANGED <<inputs, reposToProcess, idx, commandEnv, result, messages,
                 accumulators, ghosts>>

\* ---- credentials, lines 192-219 ----------------------------------------
\* lines 196-205
SetRepoEnv(env, r, c) ==
  IF RepoCfg(r).location = "b2:"
  THEN [env EXCEPT !["B2_ACCOUNT_ID"] = Cred(c.of, "keyID", c.store),
                   !["B2_ACCOUNT_KEY"] = Cred(c.of, "applicationKey", c.store),
                   !["RESTIC_PASSWORD"] = Cred(c.of, "password", c.store)]
  ELSE IF RepoCfg(r).location = "s3:"
  THEN [env EXCEPT !["AWS_ACCESS_KEY_ID"] = Cred(c.of, "keyID", c.store),
                   !["AWS_SECRET_ACCESS_KEY"] = Cred(c.of, "applicationKey", c.store),
                   !["RESTIC_PASSWORD"] = Cred(c.of, "password", c.store)]
  ELSE [env EXCEPT !["RESTIC_PASSWORD"] = c]

\* lines 211-213 without the inversion of lines 216-219
SetDuplicateEnvNoSwap(env, c2, action) ==
  [env EXCEPT !["RESTIC_PASSWORD2"] = c2]

\* lines 211-219
SetDuplicateEnv(env, c2, action) ==
  LET e2 == [env EXCEPT !["RESTIC_PASSWORD2"] = c2]
  IN  IF action = "run"
      THEN [e2 EXCEPT !["RESTIC_PASSWORD2"] = e2["RESTIC_PASSWORD"],
                      !["RESTIC_PASSWORD"] = e2["RESTIC_PASSWORD2"]]
      ELSE e2

IsDuplicate(r) == RepoCfg(r).duplicate # ""

Credentials ==
  /\ pc = "loop"
  /\ idx <= Len(reposToProcess)
  /\ \E ok1, ok2 \in BOOLEAN :
       LET r    == currentRepo
           src  == RepoCfg(r).duplicate
           env1 == SetRepoEnv(commandEnv, r, get_repo_password(r, args.vault))
           env2 == SetDuplicateEnv(env1, get_repo_password(src, args.vault),
                                   args.action)
           c1   == [cmd |-> "resolve", repo |-> r, rc |-> IF ok1 THEN 0 ELSE 1,
                    env |-> commandEnv]
           c2   == [cmd |-> "resolve", repo |-> src, rc |-> IF ok2 THEN 0 ELSE 1,
                    env |-> env1]
       IN  \* repos[currentRepo] raises KeyError for a name that is not configured
           /\ ok1 => r \in Range(repos)
           /\ ~ok1 => r \notin Range(repos) \/ CanRaise(r, args.vault)
           /\ ~ok2 => ok1 /\ IsDuplicate(r) /\ CanRaise(src, args.vault)
           /\ IF ~ok1
              THEN /\ calls' = Append(calls, c1)
                   /\ Crash
                   /\ UNCHANGED commandEnv
              ELSE IF ~IsDuplicate(r)
              THEN /\ calls' = Append(calls, c1)
                   /\ commandEnv' = env1
                   /\ pc' = IF args.action = "create" THEN "create" ELSE "dispatch"
                   /\ UNCHANGED <<printed, exitCode>>
              ELSE IF ~ok2
              THEN /\ calls' = calls \o <<c1, c2>>
                   /\ commandEnv' = env1
                   /\ Crash
              ELSE /\ calls' = calls \o <<c1, c2>>
                   /\ commandEnv' = env2
                   /\ pc' = IF args.action = "create" THEN "create" ELSE "dispatch"
                   /\ UNCHANGED <<printed, exitCode>>
  /\ UNCHANGED <<inputs, vault, reposToProcess, idx, result, messages, accumulators,
                 ghosts>>

\* ---- actions execution, lines 225-329 ----------------------------------
stepFrame == <<inputs, vault, reposToProcess, idx, accumulators, repoStatus>>

\* lines 225-235
Create ==
  /\ pc = "create"
  /\ \E rc \in RetCodes :
       /\ calls' = Append(calls, Call("init", currentRepo, rc))
       /\ IF Raises(rc)
          THEN /\ Crash
               /\ UNCHANGED <<result, messages>>
          ELSE /\ result' = run_command("init", currentRepo, rc)
               /\ successMessage' = Msg("created", currentRepo)
               /\ errorMessage' = Msg("errCreate", currentRepo)
               \* line 237 opens a second if / elif / else chain
               /\ pc' = "dispatch"
               /\ UNCHANGED <<printed, exitCode>>
  /\ UNCHANGED <<stepFrame, commandEnv, ageEval, ageWarned>>

\* lines 237-245
Prune ==
  /\ pc = "dispatch"
  /\ args.action = "prune"
  /\ \E rc \in RetCodes :
       /\ calls' = Append(calls, Call("forget", currentRepo, rc))
       /\ IF Raises(rc)
          THEN /\ Crash
               /\ UNCHANGED <<result, messages>>
          ELSE /\ result' = run_command("forget", currentRepo, rc)
               /\ successMessage' = Msg("pruned", currentRepo)
               /\ errorMessage' = Msg("errPrune", currentRepo)
               /\ pc' = "unlock"
               /\ UNCHANGED <<printed, exitCode>>
  /\ UNCHANGED <<stepFrame, commandEnv, ageEval, ageWarned>>

\* lines 255-259 with the age test outside the else: the listing is read
\* after a failed check too
AgeCheckDueAfterFailure(returncode, age) == age

\* lines 255-259
AgeCheckDue(returncode, age) == returncode = 0 /\ age

\* lines 247-259, 294-296
Check ==
  /\ pc = "dispatch"
  /\ args.action = "check"
  /\ \E rc \in RetCodes :
       /\ calls' = Append(calls, Call("check", currentRepo, rc))
       /\ IF Raises(rc)
          THEN /\ Crash
               /\ UNCHANGED <<result, messages>>
          ELSE /\ result' = run_command("check", currentRepo, rc)
               /\ errorMessage' = IF rc # 0 THEN Msg("errCheck", currentRepo)
                                            ELSE EmptyMsg
               /\ IF AgeCheckDue(rc, args.age)
                  THEN /\ pc' = "snapshots"
                       /\ UNCHANGED successMessage
                  ELSE /\ pc' = "unlock"
                       /\ successMessage' = Msg("healthy", currentRepo)
               /\ UNCHANGED <<printed, exitCode>>
  /\ UNCHANGED <<stepFrame, commandEnv, ageEval, ageWarned>>

\* line 269 (json.loads) and lines 271-274 (snaps[0]['snapshots'][0])
ListingParses(l) ==
  /\ l.json
  /\ Len(l.groups) >= 1
  /\ Len(l.groups[1]) >= 1

OldestTime(l) == l.groups[1][1]
NewestTime(l) == l.groups[1][Len(l.groups[1])]

\* lines 276-278: the first 18 characters of 'YYYY-MM-DDTHH:MM:SS...' end
\* after the tens digit of the seconds, and %S reads that one digit
ParseTime(t) == (t \div 60) * 60 + ((t % 60) \div 10)

\* lines 284-289
AgeErrorMessage(r, oldDiff, newDiff, msg) ==
  LET m1 == IF oldDiff > RepoCfg(r).max_age * Day THEN Msg("oldestOld", r) ELSE msg
  IN  IF newDiff > RepoCfg(r).min_age * Day THEN Msg("newestOld", r) ELSE m1

\* lines 287-293
AgeStdout(r, newDiff, out) ==
  IF newDiff > RepoCfg(r).min_age * Day THEN out
  ELSE out \o <<Msg("snapshotAges", r)>>

\* lines 260-296
Snapshots ==
  /\ pc = "snapshots"
  /\ \E rc \in RetCodes, l \in Listings(now) :
       LET r       == currentRepo
           oldDiff == now - ParseTime(OldestTime(l))
           newDiff == now - ParseTime(NewestTime(l))
           oldAge  == now - OldestTime(l)
           newAge  == now - NewestTime(l)
       IN  /\ rc # 0 => l = [json |-> TRUE, groups |-> <<>>]
           /\ calls' = Append(calls, Call("snapshots --json", r, rc))
           /\ IF Raises(rc)
              THEN /\ Crash
                   /\ UNCHANGED <<result, messages, ageEval, ageWarned>>
              ELSE IF rc # 0
              THEN /\ errorMessage' = Msg("errSnapshots", r)
                   /\ result' = [result EXCEPT
                                   !.stderr = @ \o Out("snapshots --json", r),
                                   !.returncode = 2]
                   /\ successMessage' = Msg("healthy", r)
                   /\ pc' = "unlock"
                   /\ UNCHANGED <<printed, exitCode, ageEval, ageWarned>>
              ELSE IF ~ListingParses(l)
              THEN /\ Crash
                   /\ ageEval' = [NoEval EXCEPT !.listing = "bad"]
                   /\ UNCHANGED <<result, messages, ageWarned>>
              ELSE /\ errorMessage' = AgeErrorMessage(r, oldDiff, newDiff, errorMessage)
                   /\ result' = [result EXCEPT !.stdout = AgeStdout(r, newDiff, @)]
                   /\ successMessage' = Msg("healthy", r)
                   /\ ageEval' = [done |-> TRUE, listing |-> "ok",
                                  oldAge |-> oldAge, newAge |-> newAge,
                                  oldDiff |-> oldDiff, newDiff |-> newDiff]
                   /\ ageWarned' = (ageWarned \/ oldAge > RepoCfg(r).max_age * Day
                                              \/ newAge > RepoCfg(r).min_age * Day)
                   /\ pc' = "unlock"
                   /\ UNCHANGED <<printed, exitCode>>
  /\ UNCHANGED <<stepFrame, commandEnv>>

\* lines 298-305
List ==
  /\ pc = "dispatch"
  /\ args.action = "list"
  /\ \E rc \in RetCodes :
       /\ calls' = Append(calls, Call("snapshots", currentRepo, rc))
       /\ IF Raises(rc)
          THEN /\ Crash
               /\ UNCHANGED <<result, messages>>
          ELSE /\ result' = run_command("snapshots", currentRepo, rc)
               /\ successMessage' = Msg("listed", currentRepo)
               /\ errorMessage' = Msg("errList", currentRepo)
               /\ pc' = "unlock"
               /\ UNCHANGED <<printed, exitCode>>
  /\ UNCHANGED <<stepFrame, commandEnv, ageEval, ageWarned>>

\* lines 309-325: the command of the else branch
RunCommand(r) == IF IsDuplicate(r) THEN "copy" ELSE "backup"

\* line 313
SwapBack(env, r) ==
  IF IsDuplicate(r)
  THEN [env EXCEPT !["RESTIC_PASSWORD"] = env["RESTIC_PASSWORD2"]]
  ELSE env

\* lines 307-329: the else of the chain that starts at line 237
Run ==
  /\ pc = "dispatch"
  /\ args.action \notin {"prune", "check", "list"}
  /\ \E rc \in RetCodes :
       /\ calls' = Append(calls, Call(RunCommand(currentRepo), currentRepo, rc))
       /\ IF Raises(rc)
          THEN /\ Crash
               /\ UNCHANGED <<result, messages, commandEnv>>
          ELSE /\ result' = run_command(RunCommand(currentRepo), currentRepo, rc)
               /\ commandEnv' = SwapBack(commandEnv, currentRepo)
               /\ successMessage' = Msg("snapshotCreated", currentRepo)
               /\ errorMessage' = Msg("errRun", currentRepo)
               /\ pc' = "unlock"
               /\ UNCHANGED <<printed, exitCode>>
  /\ UNCHANGED <<stepFrame, ageEval, ageWarned>>

\* ---- accumulation and unlock, lines 331-345 -----------------------------
\* lines 332-333
FoldPrimary(status, returncode) == IF returncode # 0 THEN 2 ELSE status

\* lines 344-345 without the 'scriptReturnValue < 2' guard
FoldUnlockUnguarded(status, returncode) ==
  IF returncode # 0 THEN 1 ELSE status

\* lines 344-345
FoldUnlock(status, returncode) ==
  IF status < 2 /\ returncode # 0 THEN 1 ELSE status

\* the status one repository contributes: Critical when its result is
\* non-zero, else Warning when its unlock is non-zero, else Success
StatusOf(returncode, unlockCode) ==
  IF returncode # 0 THEN 2 ELSE IF unlockCode # 0 THEN 1 ELSE 0

Unlock ==
  /\ pc = "unlock"
  /\ \E rc \in RetCodes :
       LET resultUnlock == run_command("unlock", currentRepo, rc)
       IN  /\ calls' = Append(calls, Call("unlock", currentRepo, rc))
           /\ successMessageAccumulated' = Append(successMessageAccumulated, successMessage)
           /\ errorMessageAccumulated' = Append(errorMessageAccumulated, errorMessage)
           /\ IF Raises(rc)
              THEN /\ Crash
                   /\ scriptReturnValue' = FoldPrimary(scriptReturnValue, result.returncode)
                   /\ stdoutAccumulated' = stdoutAccumulated \o result.stdout
                   /\ stderrAccumulated' = stderrAccumulated \o result.stderr
                   /\ UNCHANGED <<idx, repoStatus>>
              ELSE /\ scriptReturnValue' =
                        FoldUnlock(FoldPrimary(scriptReturnValue, result.returncode),
                                   resultUnlock.returncode)
                   /\ stdoutAccumulated' =
                        stdoutAccumulated \o result.stdout \o resultUnlock.stdout
                   /\ stderrAccumulated' =
                        stderrAccumulated \o result.stderr \o resultUnlock.stderr
                   /\ repoStatus' = Append(repoStatus, StatusOf(result.returncode, rc))
                   /\ idx' = idx + 1
                   /\ pc' = "loop"
                   /\ UNCHANGED <<printed, exitCode>>
  /\ ageEval' = NoEval
  /\ UNCHANGED <<inputs, vault, reposToProcess, commandEnv, result, messages, ageWarned>>

\* end_script with the quiet test applied to the CRITICAL branch too
end_scriptQuietCritical(returnCode, stdOut, stdErr, successMsg, errorMsg, quiet, verbose) ==
  IF returnCode = 2
  THEN [lines |-> IF quiet THEN <<>>
                  ELSE <<Line("CRITICAL", errorMsg), Line("Output", stdOut),
                         Line("Error", stdErr)>>,
        code  |-> 2]
  ELSE IF returnCode = 1
  THEN [lines |-> (IF ~quiet THEN <<Line("WARNING", errorMsg)>> ELSE <<>>)
                  \o (IF verbose THEN <<Line("Output", stdOut), Line("Error", stdErr)>>
                                 ELSE <<>>),
        code  |-> 1]
  ELSE [lines |-> (IF ~quiet THEN <<Line("OK", successMsg)>> ELSE <<>>)
                  \o (IF verbose THEN <<Line("rule", <<>>), Line("stdout", stdOut)>>
                                 ELSE <<>>),
        code  |-> 0]

\* ---- end_script, lines 117-139 ------------------------------------------
end_script(returnCode, stdOut, stdErr, successMsg, errorMsg, quiet, verbose) ==
  IF returnCode = 2
  THEN [lines |-> <<Line("CRITICAL", errorMsg), Line("Output", stdOut),
                    Line("Error", stdErr)>>,
        code  |-> 2]
  ELSE IF returnCode = 1
  THEN [lines |-> (IF ~quiet THEN <<Line("WARNING", errorMsg)>> ELSE <<>>)
                  \o (IF verbose THEN <<Line("Output", stdOut), Line("Error", stdErr)>>
                                 ELSE <<>>),
        code  |-> 1]
  ELSE [lines |-> (IF ~quiet THEN <<Line("OK", successMsg)>> ELSE <<>>)
                  \o (IF verbose THEN <<Line("rule", <<>>), Line("stdout", stdOut)>>
                                 ELSE <<>>),
        code  |-> 0]

\* lines 347-356
Report ==
  /\ pc = "loop"
  /\ idx > Len(reposToProcess)
  /\ LET e == end_script(scriptReturnValue, stdoutAccumulated, stderrAccumulated,
                         successMessageAccumulated, errorMessageAccumulated,
                         args.quiet, args.verbose)
     IN  /\ printed' = printed \o e.lines
         /\ exitCode' = e.code
  /\ pc' = "exit_report"
  /\ UNCHANGED <<inputs, vault, reposToProcess, idx, commandEnv, result, messages,
                 accumulators, calls, ghosts>>

Next ==
  \/ RepoCheck
  \/ SelfUpdate
  \/ SkipSelfUpdate
  \/ BuildList
  \/ VaultLogin
  \/ Credentials
  \/ Create
  \/ Prune
  \/ Check
  \/ Snapshots
  \/ List
  \/ Run
  \/ Unlock
  \/ Report

Spec == Init /\ [][Next]_vars

\* every external invocation returns and the interpreter keeps running
FairSpec == Spec /\ WF_vars(Next)

TypeOK ==
  /\ pc \in {"start", "selfupdate", "build", "vault", "loop", "create", "dispatch",
             "snapshots", "unlock", "exit_config", "exit_selfupdate", "exit_report",
             "crashed"}
  /\ scriptReturnValue \in 0..2
  /\ exitCode \in {-1, 0, 1, 2}
  /\ idx \in 0..(Len(reposToProcess) + 1)

\* ---- properties ---------------------------------------------------------
Last(s) == s[Len(s)]

RECURSIVE MaxOf(_)
MaxOf(s) == IF s = <<>> THEN 0
            ELSE LET m == MaxOf(Tail(s)) IN IF Head(s) > m THEN Head(s) ELSE m

\* restic invocations made against a repository
RepoCmds == {"init", "forget", "check", "snapshots --json", "snapshots", "copy",
             "backup", "unlock"}

\* positions in the call log of the invocations cmd against repository r
CallIdx(cmd, r) == {i \in 1..Len(calls) : calls[i].cmd = cmd /\ calls[i].repo = r}

\* the primary invocation of an action on repository r
PrimaryCmd(action, r) ==
  CASE action = "create" -> "init"
    [] action = "prune"  -> "forget"
    [] action = "check"  -> "check"
    [] action = "list"   -> "snapshots"
    [] OTHER             -> IF IsDuplicate(r) THEN "copy" ELSE "backup"

Terminated == pc \in {"exit_config", "exit_selfupdate", "exit_report", "crashed"}

\* C1: the running batch status is 0, 1 or 2, it never decreases from one
\* step to the next, it is at every moment the maximum of the statuses of the
\* repositories processed so far, and the Reporter receives the maximum over
\* all repositories of the list.
C1_StatusIsMaximum ==
  /\ [](/\ scriptReturnValue \in {0, 1, 2}
        /\ scriptReturnValue = MaxOf(repoStatus)
        /\ pc = "exit_report" =>
             /\ Len(repoStatus) = Len(reposToProcess)
             /\ exitCode = MaxOf(repoStatus))
  /\ [][scriptReturnValue' >= scriptReturnValue]_vars

\* a batch of two repositories where the first is Critical and the second
\* only fails to unlock has been reported
C1_Witness ==
  /\ pc = "exit_report"
  /\ repoStatus = <<2, 1>>

\* C2: once a run has ended, every repository whose primary invocation was
\* issued has exactly one unlock invocation, issued after all its other
\* invocations and before any invocation against the next repository.
C2_UnlockOncePerRepository ==
  Terminated =>
    \A k \in 1..Len(reposToProcess) :
      LET r == reposToProcess[k]
      IN  CallIdx(PrimaryCmd(args.action, r), r) # {} =>
            /\ Cardinality(CallIdx("unlock", r)) = 1
            /\ \A u \in CallIdx("unlock", r), i \in 1..Len(calls) :
                 /\ calls[i].repo = r /\ calls[i].cmd \in RepoCmds \ {"unlock"} => i < u
                 /\ k < Len(reposToProcess) /\ calls[i].repo = reposToProcess[k + 1]
                      /\ calls[i].cmd \in RepoCmds => u < i

\* C3: a step in which a restic invocation against a repository returns a
\* non-zero exit code never ends the run: the script goes on to the next
\* position of the loop; and the Reporter is reached only when every
\* repository of the list has had its primary invocation and its unlock.
C3_NonZeroExitContained ==
  /\ [][(/\ Len(calls') = Len(calls) + 1
         /\ Last(calls').cmd \in RepoCmds
         /\ Last(calls').rc # 0)
        => /\ pc' \in {"dispatch", "unlock", "loop"}
           /\ exitCode' = -1
           /\ Last(calls').cmd = "unlock" => pc' = "loop" /\ idx' = idx + 1]_vars
  /\ [](pc = "exit_report" =>
          \A k \in 1..Len(reposToProcess) :
            /\ CallIdx(PrimaryCmd(args.action, reposToProcess[k]), reposToProcess[k]) # {}
            /\ CallIdx("unlock", reposToProcess[k]) # {})

\* the first repository's snapshot listing and unlock both exited non-zero,
\* and the second repository was still checked and unlocked before the report
C3_Witness ==
  /\ pc = "exit_report"
  /\ Len(reposToProcess) = 2
  /\ \E i \in CallIdx("snapshots --json", reposToProcess[1]) : calls[i].rc # 0
  /\ \E i \in CallIdx("unlock", reposToProcess[1]) : calls[i].rc # 0
  /\ \E i \in CallIdx("check", reposToProcess[2]) : calls[i].rc # 0
  /\ CallIdx("unlock", reposToProcess[2]) # {}

\* C4: once the list is built, it holds every configured repository in
\* configuration order when the target is "all", and exactly the named
\* repository when the target is a configured name.
C4_TargetExpansion ==
  pc \in {"vault", "loop", "create", "dispatch", "snapshots", "unlock", "exit_report"} =>
    /\ args.repo = ALL_REPOS => reposToProcess = repos
    /\ args.repo \in Range(repos) => reposToProcess = <<args.repo>>

\* C5: a target that is neither configured nor "all" ends the run at the
\* existence check with exit code 2, before any self-update, Vault login,
\* credential resolution or restic invocation.
C5_UnknownRepositoryExits ==
  (args.repo \notin Range(repos) /\ args.repo # ALL_REPOS /\ pc # "start") =>
    /\ pc = "exit_config"
    /\ exitCode = 2
    /\ calls = <<>>
    /\ ~vault
    /\ commandEnv = [v \in EnvVars |-> Unset]

\* an unknown target was rejected although self-update and Vault were requested
C5_Witness ==
  /\ pc = "exit_config"
  /\ args.repo = AbsentName
  /\ args.selfUpdate
  /\ args.vault

\* C6: with self-update requested, the first external call of the run is the
\* self-update and no later call is one; when it exits non-zero the run has
\* ended with exit code 2 and nothing else was called: no Vault login, no
\* credential resolution, no primary invocation, no unlock.
C6_SelfUpdateFirstAndFatal ==
  (args.selfUpdate /\ pc \notin {"start", "selfupdate", "exit_config"}) =>
    /\ Len(calls) >= 1
    /\ calls[1].cmd = "self-update"
    /\ \A i \in 2..Len(calls) : calls[i].cmd # "self-update"
    /\ calls[1].rc # 0 =>
         /\ pc = "exit_selfupdate"
         /\ exitCode = 2
         /\ Len(calls) = 1
         /\ ~vault
         /\ commandEnv = [v \in EnvVars |-> Unset]

\* a failed self-update has ended a run that was to process a repository
C6_Witness ==
  /\ pc = "exit_selfupdate"
  /\ calls[1].rc # 0
  /\ args.repo \in Range(repos)

\* C7: when the Reporter has run, the exit code is the batch status; with
\* status 2 the CRITICAL line with the accumulated error text and the
\* accumulated standard error are printed whatever quiet says; with status 1
\* the WARNING line is printed iff not quiet and the standard error iff
\* verbose; with status 0 the OK line is printed iff not quiet and the
\* accumulated standard output iff verbose.
C7_ReporterMapping ==
  pc = "exit_report" =>
    /\ exitCode = scriptReturnValue
    /\ scriptReturnValue = 2 =>
         /\ Line("CRITICAL", errorMessageAccumulated) \in Range(printed)
         /\ Line("Error", stderrAccumulated) \in Range(printed)
    /\ scriptReturnValue = 1 =>
         /\ Line("WARNING", errorMessageAccumulated) \in Range(printed) <=> ~args.quiet
         /\ Line("Error", stderrAccumulated) \in Range(printed) <=> args.verbose
         /\ \A i \in 1..Len(printed) : printed[i].line \notin {"CRITICAL", "OK"}
    /\ scriptReturnValue = 0 =>
         /\ Line("OK", successMessageAccumulated) \in Range(printed) <=> ~args.quiet
         /\ Line("stdout", stdoutAccumulated) \in Range(printed) <=> args.verbose
         /\ \A i \in 1..Len(printed) : printed[i].line \notin {"CRITICAL", "WARNING"}

\* a Critical batch was reported by a quiet run
C7_Witness ==
  /\ pc = "exit_report"
  /\ scriptReturnValue = 2
  /\ args.quiet
  /\ ~args.verbose

\* C8: for every repository processed, if the primary invocation of the
\* action exited non-zero the repository's status is Critical and the batch
\* status is 2; if it exited zero and every later invocation against the
\* repository exited zero too, the repository's status is Success.
C8_PrimaryExitDecidesStatus ==
  \A k \in 1..Len(repoStatus) :
    LET r == reposToProcess[k]
    IN  \A i \in CallIdx(PrimaryCmd(args.action, r), r) :
          /\ calls[i].rc # 0 => repoStatus[k] = 2 /\ scriptReturnValue = 2
          /\ (calls[i].rc = 0 /\ \A j \in (i + 1)..Len(calls) :
                                   calls[j].repo = r => calls[j].rc = 0)
               => repoStatus[k] = 0

\* C9: after an age evaluation with a snapshot over a threshold, the message
\* of the repository cites the oldest or the newest snapshot; and a run in
\* which a threshold was exceeded and every external call exited zero ends
\* with status 1.
C9_AgeWarning ==
  /\ (pc = "unlock" /\ ageEval.done /\ ageEval.oldAge > RepoCfg(currentRepo).max_age * Day)
       => errorMessage \in {Msg("oldestOld", currentRepo), Msg("newestOld", currentRepo)}
  /\ (pc = "unlock" /\ ageEval.done /\ ageEval.newAge > RepoCfg(currentRepo).min_age * Day)
       => errorMessage = Msg("newestOld", currentRepo)
  /\ (pc = "exit_report" /\ ageWarned /\ \A i \in 1..Len(calls) : calls[i].rc = 0)
       => scriptReturnValue = 1 /\ exitCode = 1

\* C10: after an age evaluation in which the oldest snapshot is at most
\* max_age days old and the newest at most min_age days old, the result is
\* still zero, no error message is set and the ages are appended to the
\* result's standard output.
C10_AgesWithinThresholds ==
  (/\ pc = "unlock"
   /\ ageEval.done
   /\ ageEval.oldAge <= RepoCfg(currentRepo).max_age * Day
   /\ ageEval.newAge <= RepoCfg(currentRepo).min_age * Day)
  => /\ result.returncode = 0
     /\ errorMessage = EmptyMsg
     /\ Msg("snapshotAges", currentRepo) \in Range(result.stdout)

\* C11: when the snapshot listing of an age check is empty or is not valid
\* JSON, the script goes on to that repository's unlock with a Critical
\* result, and the run does not end before the Reporter, which exits with 2.
C11_BadListingIsCritical ==
  ageEval.listing = "bad" =>
    /\ pc = "unlock"
    /\ result.returncode # 0
    /\ Terminated => pc = "exit_report" /\ exitCode = 2

\* C12: when the credential resolution of a repository has failed, the run
\* does not end before the Reporter: every repository of the list has its
\* credentials resolved in turn, and the Reporter exits with 2.
C12_CredentialFailureContained ==
  (\E i \in 1..Len(calls) : calls[i].cmd = "resolve" /\ calls[i].rc # 0) =>
    /\ pc # "crashed"
    /\ Terminated =>
         /\ pc = "exit_report"
         /\ exitCode = 2
         /\ \A k \in 1..Len(reposToProcess) : CallIdx("resolve", reposToProcess[k]) # {}

\* C13: for every repository processed: if its primary invocation exited
\* zero and of its invocations only the unlock exited non-zero, its status is
\* Warning; if the primary invocation and the unlock both exited non-zero,
\* its status is Critical and so is the batch status; the unlock's standard
\* error is part of the accumulated standard error.
C13_UnlockFailure ==
  \A k \in 1..Len(repoStatus) :
    LET r == reposToProcess[k]
    IN  \A i \in CallIdx(PrimaryCmd(args.action, r), r), u \in CallIdx("unlock", r) :
          /\ (/\ calls[i].rc = 0
              /\ calls[u].rc # 0
              /\ \A j \in 1..Len(calls) :
                   (calls[j].repo = r /\ calls[j].cmd \in RepoCmds /\ j # u)
                     => calls[j].rc = 0)
               => repoStatus[k] = 1 /\ scriptReturnValue >= 1
          /\ (calls[i].rc # 0 /\ calls[u].rc # 0)
               => repoStatus[k] = 2 /\ scriptReturnValue = 2
          /\ \E n \in 1..Len(stderrAccumulated) : <<stderrAccumulated[n]>> = Out("unlock", r)

\* C14: at every restic invocation against a repository R, each credential
\* variable of the environment is unset or holds a value resolved for R or
\* for the source R duplicates.
C14_NoCredentialLeak ==
  \A i \in 1..Len(calls) :
    calls[i].cmd \in RepoCmds =>
      \A v \in EnvVars :
        calls[i].env[v].of \in {"", calls[i].repo, RepoCfg(calls[i].repo).duplicate}

\* the passphrase of repository r as the run resolves it
Passphrase(r) == Cred(r, "password", IF args.vault THEN "vault" ELSE "config")

\* the credentials of t and then of its source were resolved before call i
ResolvedBefore(t, i) ==
  \E j, k \in 1..(i - 1) :
    /\ j < k
    /\ calls[j].cmd = "resolve" /\ calls[j].repo = t /\ calls[j].rc = 0
    /\ calls[k].cmd = "resolve" /\ calls[k].repo = RepoCfg(t).duplicate /\ calls[k].rc = 0

\* C15: at the init invocation of a create on a duplicate target T with
\* source S, RESTIC_PASSWORD is T's passphrase and RESTIC_PASSWORD2 is S's;
\* at the copy invocation of a run the two are swapped; in both cases the
\* credentials of T and of S were resolved before the invocation.
C15_DuplicatePassphrases ==
  \A i \in 1..Len(calls) :
    LET t == calls[i].repo
        e == calls[i].env
    IN  /\ (calls[i].cmd = "init" /\ args.action = "create" /\ IsDuplicate(t)) =>
             /\ e["RESTIC_PASSWORD"] = Passphrase(t)
             /\ e["RESTIC_PASSWORD2"] = Passphrase(RepoCfg(t).duplicate)
             /\ ResolvedBefore(t, i)
        /\ (calls[i].cmd = "copy" /\ args.action = "run") =>
             /\ e["RESTIC_PASSWORD"] = Passphrase(RepoCfg(t).duplicate)
             /\ e["RESTIC_PASSWORD2"] = Passphrase(t)
             /\ ResolvedBefore(t, i)

\* a run has backed up the source, copied it to the mirror with the
\* passphrases inverted, and reported
C15_Witness ==
  /\ args.action = "run"
  /\ pc = "exit_report"
  /\ reposToProcess = <<"local", "mirror">>
  /\ \E i \in CallIdx("copy", "mirror") :
       calls[i].env["RESTIC_PASSWORD"].of = "local"

\* C16: in a create, no backup and no copy invocation is issued; when the
\* script reaches the unlock of a repository, the result and the messages
\* are those of its init invocation, and the init is the only invocation
\* issued against the repository before the unlock.
C16_CreateOnlyInitialises ==
  args.action = "create" =>
    /\ \A i \in 1..Len(calls) : calls[i].cmd \notin {"backup", "copy"}
    /\ pc = "unlock" =>
         /\ successMessage = Msg("created", currentRepo)
         /\ errorMessage = Msg("errCreate", currentRepo)
         /\ \E i \in CallIdx("init", currentRepo) :
              /\ result = run_command("init", currentRepo, calls[i].rc)
              /\ \A j \in 1..Len(calls) :
                   (calls[j].repo = currentRepo /\ calls[j].cmd \in RepoCmds) => j = i

\* C17: at every unlock invocation, RESTIC_PASSWORD is the passphrase of the
\* repository being unlocked.
C17_UnlockUsesOwnPassphrase ==
  \A i \in 1..Len(calls) :
    calls[i].cmd = "unlock" => calls[i].env["RESTIC_PASSWORD"] = Passphrase(calls[i].repo)

\* C18: a structured snapshot listing is issued only in a check with
\* age-checking requested, directly after a check invocation against the same
\* repository that exited zero, once per repository and before its unlock;
\* and such a check invocation is always followed by the listing.
C18_ListingOnlyAfterGoodCheck ==
  /\ \A j \in 1..Len(calls) :
       calls[j].cmd = "snapshots --json" =>
         /\ args.action = "check"
         /\ args.age
         /\ j > 1
         /\ calls[j - 1].cmd = "check"
         /\ calls[j - 1].repo = calls[j].repo
         /\ calls[j - 1].rc = 0
         /\ CallIdx("snapshots --json", calls[j].repo) = {j}
         /\ \A u \in CallIdx("unlock", calls[j].repo) : j < u
  /\ \A i \in 1..Len(calls) :
       (calls[i].cmd = "check" /\ calls[i].rc = 0 /\ args.age) =>
         IF i = Len(calls)
         THEN pc = "snapshots"
         ELSE calls[i + 1].cmd = "snapshots --json" /\ calls[i + 1].repo = calls[i].repo

\* a check with age-checking has been reported in which the first repository
\* failed its check and got no listing and the second got one
C18_Witness ==
  /\ pc = "exit_report"
  /\ args.age
  /\ Len(reposToProcess) = 2
  /\ \E i \in CallIdx("check", reposToProcess[1]) : calls[i].rc # 0
  /\ CallIdx("snapshots --json", reposToProcess[1]) = {}
  /\ CallIdx("snapshots --json", reposToProcess[2]) # {}

\* C19: a processed repository whose primary invocation exited zero and for
\* which no snapshot listing was read contributes no error message to the
\* accumulated error text, and every processed repository contributes its
\* success message at its position in processing order.
C19_ErrorMessageOnlyOnFailure ==
  \A k \in 1..Len(repoStatus) :
    LET r == reposToProcess[k]
    IN  /\ successMessageAccumulated[k].r = r
        /\ \A i \in CallIdx(PrimaryCmd(args.action, r), r) :
             (calls[i].rc = 0 /\ CallIdx("snapshots --json", r) = {})
               => errorMessageAccumulated[k] = EmptyMsg

\* C20: a run that got past the repository check and the self-update ends
\* only through the Reporter, never through an exception; the Reporter runs
\* when every repository of the list has been folded, exits with the batch
\* status, and no verdict line is printed before it.
C20_EveryRunReachesReporter ==
  /\ pc # "crashed"
  /\ pc = "exit_report" =>
       /\ exitCode = scriptReturnValue
       /\ Len(repoStatus) = Len(reposToProcess)
       /\ \A k \in 1..Len(reposToProcess) :
            Cardinality(CallIdx("unlock", reposToProcess[k])) = 1
  /\ (\E n \in 1..Len(printed) : printed[n].line \in {"CRITICAL", "WARNING", "OK"})
       => pc = "exit_report"

====
